---- MODULE Spec2Model ----
(***************************************************************************)
(* Incremental ingestion of Wikipedia pageview partitions into ClickHouse, *)
(* tracked in the DuckDB table processed_files                             *)
(* (pipeline/wikipedia_pipeline_simple_incremental.py), run from the entry *)
(* point run_simple_incremental.py.                                        *)
(*                                                                         *)
(* One behaviour is a sequence of non-overlapping process runs.  Every     *)
(* remote call of a run is a step of its own, so that a call may raise and *)
(* the process may be killed between any two calls.                        *)
(*                                                                         *)
(* Spec       sequential runs under the configuration of config.py         *)
(* SpecEnum   generate_date_patterns as a function of its arguments        *)
(* SpecConfig sequential runs under edited configurations                  *)
(* SpecConc   two overlapping runs over the same store and table           *)
(* SpecDlt    the dlt variant, pipeline/wikipedia_pipeline_incremental.py  *)
(***************************************************************************)
EXTENDS Integers, Sequences, FiniteSets, TLC

\* ------------------------------------------------------------------ bounds
\* Number of process runs in one behaviour.
MaxRuns == 2
\* The source files hold k, 2k, 3k, ... rows for some k in 0..MaxRows.
MaxRows == 1
\* Number of faults in one behaviour: a call to ClickHouse or to the progress
\* store raising, or the process being killed.
MaxFaults == 3
\* Longest days list and longest hours list handed to generate_date_patterns.
MaxListLen == 2

\* ----------------------------------------------------------- configuration
\* WIKIPEDIA_CONFIG of pipeline/config.py
ConfigYear == 2025
ConfigMonth == 1
ConfigDays == <<1, 2>>
ConfigHours == <<0, 1>>

\* ---------------------------------------------------------------- helpers
Range(s) == {s[i] : i \in 1..Len(s)}

RECURSIVE SumSeq(_)
SumSeq(s) == IF s = <<>> THEN 0 ELSE Head(s) + SumSeq(Tail(s))

RECURSIVE SumOver(_, _)
\* sum of f[x] over the finite set S
SumOver(f, S) ==
    IF S = {} THEN 0
    ELSE LET x == CHOOSE y \in S : TRUE IN f[x] + SumOver(f, S \ {x})

\* Python's format spec :02d for a non-negative integer: zero-padded to two
\* digits, never truncated.
Pad2(n) == IF n < 10 THEN "0" \o ToString(n) ELSE ToString(n)

\* The f-strings of generate_date_patterns for one (day, hour).
FilePattern(year, month, day, hour) ==
    LET date_str == ToString(year) \o Pad2(month) \o Pad2(day)
        hour_str == Pad2(hour) \o "0000"
    IN  ToString(year) \o "/" \o ToString(year) \o "-" \o Pad2(month)
          \o "/pageviews-" \o date_str \o "-" \o hour_str \o ".gz"

RECURSIVE HourLoop(_, _, _, _, _)
\* for hour in hours: patterns.append(pattern)
HourLoop(patterns, year, month, day, hours) ==
    IF hours = <<>> THEN patterns
    ELSE HourLoop(Append(patterns, FilePattern(year, month, day, Head(hours))),
                  year, month, day, Tail(hours))

RECURSIVE DayLoopReversed(_, _, _, _, _)
\* Faulty variant: for day in reversed(days)
DayLoopReversed(patterns, year, month, days, hours) ==
    IF days = <<>> THEN patterns
    ELSE HourLoop(DayLoopReversed(patterns, year, month, Tail(days), hours),
                  year, month, Head(days), hours)

RECURSIVE DayLoop(_, _, _, _, _)
\* for day in days: for hour in hours: ...
DayLoop(patterns, year, month, days, hours) ==
    IF days = <<>> THEN patterns
    ELSE DayLoop(HourLoop(patterns, year, month, Head(days), hours),
                 year, month, Tail(days), hours)

generate_date_patterns(year, month, days, hours) ==
    DayLoop(<<>>, year, month, days, hours)

WIKIPEDIA_CONFIG ==
    [year |-> ConfigYear, month |-> ConfigMonth,
     days |-> ConfigDays, hours |-> ConfigHours]

\* Every identifier the configuration enumerates.
ConfiguredPatterns ==
    Range(generate_date_patterns(ConfigYear, ConfigMonth, ConfigDays, ConfigHours))

\* ------------------------------------------------------------------ state
VARIABLES
    processed_files,   \* DuckDB tracking table: a set of rows
    wikistat,          \* ClickHouse target table: per partition, the batches appended
    sourceRows,        \* rows the load statement finds in each partition's file
    config,            \* WIKIPEDIA_CONFIG as the process reads it
    client,            \* ClickHouseManager.client: "None" or "Client"
    pc,                \* position of the running process, "idle" when there is none
    all_patterns,      \* locals of SimpleIncrementalPipeline.run
    processed,
    new_patterns,
    idx,               \* position of the for loop in new_patterns
    before_count,      \* locals of load_pageviews_for_date
    rows,
    total_inserted,
    result,            \* the dict run returns, NoResult before
    exitStatus,        \* how the last process ended: "none", "success", "failure", "killed"
    \* history of the behaviour, read by the properties only
    runs,              \* number of runs started
    faults,            \* number of faults so far, by kind
    attempts,          \* this run's attempted partitions, in order
    storeErr,          \* a progress-store call raised in this run
    fatal,             \* the call outside the loads whose error ended the run
    countAtStart,      \* row count of the target table when the run started
    prev,              \* exitStatus and attempts of the previous run
    \* the other programs over the same store and table
    conc,              \* two overlapping runs of SimpleIncrementalPipeline.run
    dlt                \* WikipediaDataEngineeringPipelineIncremental and its dlt state

vars == <<processed_files, wikistat, sourceRows, config, conc, dlt, client, pc, all_patterns,
          processed, new_patterns, idx, before_count, rows, total_inserted,
          result, exitStatus, runs, faults, attempts, storeErr, fatal,
          countAtStart, prev>>

\* What a run of the simple pipeline never writes: its inputs and the state of
\* the other programs.
fixed == <<sourceRows, config, conc, dlt>>

\* What a process holds in memory.
locals == <<all_patterns, processed, new_patterns, idx, before_count, rows,
            total_inserted, result>>

\* What the properties read of the run so far.
history == <<runs, attempts, storeErr, fatal, countAtStart, prev>>

NoResult == [new_files |-> -1]

\* datetime.now(): the clock is read to the precision of one process run.
Now == runs

\* ----------------------------------------------------------- ClickHouse
\* ClickHouseManager.get_table_row_count('wikistat_data_engineering')
get_table_row_count(table) ==
    SumOver([p \in DOMAIN table |-> SumSeq(table[p])], DOMAIN table)

\* The load statement of 04_load_filtered_pageviews.sql: appends the n rows
\* selected from the partition's file to the target table.
AppendRows(table, pattern, n) ==
    [table EXCEPT ![pattern] = Append(@, n)]

\* --------------------------------------------------------- progress store
\* Faulty variant: the WHERE clause compares with another spelling of the
\* status, so no row is selected.
get_processed_files_other_status(tbl) ==
    {r.file_pattern : r \in {q \in tbl : q.status = "Success"}}

\* Faulty variant: the query has no WHERE clause.
get_processed_files_any_status(tbl) ==
    {r.file_pattern : r \in tbl}

\* SELECT file_pattern FROM processed_files WHERE status = 'success'
get_processed_files(tbl) ==
    {r.file_pattern : r \in {q \in tbl : q.status = "success"}}

\* Faulty variant: a plain INSERT into a table without the primary key.
mark_file_processed_insert(tbl, file_pattern, rows_inserted, at, status) ==
    tbl \cup {[file_pattern |-> file_pattern, rows_inserted |-> rows_inserted,
               processed_at |-> at, status |-> status]}

\* INSERT OR REPLACE INTO processed_files ... : file_pattern is the primary key
mark_file_processed(tbl, file_pattern, rows_inserted, at, status) ==
    {r \in tbl : r.file_pattern # file_pattern}
        \cup {[file_pattern |-> file_pattern, rows_inserted |-> rows_inserted,
               processed_at |-> at, status |-> status]}

\* ------------------------------------------------------------------ init
\* Two invocations of run_simple_incremental.py over the same store and table.
ConcurrentRuns == {1, 2}

\* What one of them holds in memory, and the log of what it did.
IdleRun ==
    [pc |-> "idle", new_patterns |-> <<>>, idx |-> 0, before_count |-> 0,
     rows |-> 0, log |-> <<>>]

NoConc == [r \in ConcurrentRuns |-> IdleRun]
\* The dlt variant before its first run: nothing in the dlt pipeline state, no
\* process.  state is what dlt keeps between processes; the other fields are
\* the memory of a process (pipeline_state is the dict handed to
\* load_wikipedia_pageviews_incremental, processed_files its local set), and
\* loaded, completed_before_kill and exit are history.
NoDlt ==
    [pc |-> "idle", state |-> {}, pipeline_state |-> {}, processed_files |-> {},
     patterns_to_process |-> <<>>, idx |-> 0, stats |-> <<>>, runs |-> 0,
     loaded |-> {}, completed_before_kill |-> {}, exit |-> "none"]

\* Position of a partition in the enumeration of the configuration.
PositionOf(p) ==
    LET all == generate_date_patterns(ConfigYear, ConfigMonth,
                                      ConfigDays, ConfigHours)
    IN  CHOOSE i \in 1..Len(all) : all[i] = p

FreshLocals ==
    /\ all_patterns = <<>>
    /\ processed = {}
    /\ new_patterns = <<>>
    /\ idx = 0
    /\ before_count = 0
    /\ rows = 0
    /\ total_inserted = 0
    /\ result = NoResult

\* No process of the simple pipeline has run yet.
NoProcess ==
    /\ client = "None"
    /\ pc = "idle"
    /\ FreshLocals
    /\ exitStatus = "none"
    /\ runs = 0
    /\ faults = [k \in {"load", "store", "clickhouse", "kill"} |-> 0]
    /\ attempts = <<>>
    /\ storeErr = FALSE
    /\ fatal = "none"
    /\ countAtStart = 0
    /\ prev = [exitStatus |-> "none", attempts |-> <<>>]

\* A fresh tracking database, an empty target table, no process, the
\* configuration of config.py.
Init ==
    /\ config = WIKIPEDIA_CONFIG
    /\ processed_files = {}
    /\ wikistat = [p \in ConfiguredPatterns |-> <<>>]
    /\ \E k \in 0..MaxRows :
          sourceRows = [p \in ConfiguredPatterns |-> k * PositionOf(p)]
    /\ NoProcess
    /\ conc = NoConc
    /\ dlt = NoDlt

\* ------------------------------------------------------ attempts (history)
NewAttempt(p) ==
    [pattern |-> p, raised |-> FALSE, appended |-> -1,
     status |-> "none", rows_inserted |-> 0]

SetCur(field, value) ==
    [attempts EXCEPT ![Len(attempts)] = [@ EXCEPT ![field] = value]]

\* A call raises or the process is killed, within the budget of the behaviour.
FaultKinds == {"load", "store", "clickhouse", "kill"}

Fault(kind) ==
    /\ SumOver(faults, FaultKinds) < MaxFaults
    /\ faults' = [faults EXCEPT ![kind] = @ + 1]

\* The process ends: its memory and its connection are gone.
ProcessExit(status) ==
    /\ exitStatus' = status
    /\ pc' = "idle"
    /\ client' = "None"
    /\ all_patterns' = <<>>
    /\ processed' = {}
    /\ new_patterns' = <<>>
    /\ idx' = 0
    /\ before_count' = 0
    /\ rows' = 0
    /\ total_inserted' = 0
    /\ result' = NoResult

\* --------------------------------------------------------------- actions
\* python run_simple_incremental.py: a new process, a new pipeline object.
StartRun ==
    /\ pc = "idle"
    /\ runs < MaxRuns
    /\ pc' = "setup"
    /\ runs' = runs + 1
    /\ exitStatus' = "none"
    /\ attempts' = <<>>
    /\ storeErr' = FALSE
    /\ fatal' = "none"
    /\ countAtStart' = get_table_row_count(wikistat)
    /\ prev' = [exitStatus |-> exitStatus, attempts |-> attempts]
    /\ UNCHANGED <<processed_files, wikistat, fixed, client, locals, faults>>

\* setup_tables: the three setup files, the keywords count, CREATE TABLE IF
\* NOT EXISTS processed_files.  The first execute_sql_file connects.
SetupTables ==
    /\ pc = "setup"
    /\ client' = "Client"
    /\ pc' = "filter"
    /\ UNCHANGED <<processed_files, wikistat, fixed, locals, exitStatus,
                   faults, history>>

\* A call of setup_tables raises, before or after the connection is made.
SetupTablesRaises ==
    /\ pc = "setup"
    /\ Fault("clickhouse")
    /\ \E c \in {"None", "Client"} : client' = c
    /\ pc' = "raised"
    /\ fatal' = "setup"
    /\ UNCHANGED <<processed_files, wikistat, fixed, locals, exitStatus,
                   runs, attempts, storeErr, countAtStart, prev>>

\* Faulty variant: the filter keeps the recorded partitions instead of the
\* others.
FilterPatternsInverted ==
    /\ pc = "filter"
    /\ LET all == generate_date_patterns(config.year, config.month,
                                         config.days, config.hours)
           done == get_processed_files(processed_files)
           new == SelectSeq(all, LAMBDA p : p \in done)
       IN  /\ all_patterns' = all
           /\ processed' = done
           /\ new_patterns' = new
           /\ IF new = <<>>
              THEN /\ client' = "None"
                   /\ pc' = "empty_count"
                   /\ idx' = 0
              ELSE /\ client' = client
                   /\ pc' = "load_before"
                   /\ idx' = 1
    /\ UNCHANGED <<processed_files, wikistat, fixed, before_count, rows,
                   total_inserted, result, exitStatus, faults, history>>

\* Faulty variant: every enumerated partition is processed, recorded or not.
FilterPatternsUnfiltered ==
    /\ pc = "filter"
    /\ LET all == generate_date_patterns(config.year, config.month,
                                         config.days, config.hours)
           done == get_processed_files(processed_files)
           new == all
       IN  /\ all_patterns' = all
           /\ processed' = done
           /\ new_patterns' = new
           /\ IF new = <<>>
              THEN /\ client' = "None"
                   /\ pc' = "empty_count"
                   /\ idx' = 0
              ELSE /\ client' = client
                   /\ pc' = "load_before"
                   /\ idx' = 1
    /\ UNCHANGED <<processed_files, wikistat, fixed, before_count, rows,
                   total_inserted, result, exitStatus, faults, history>>

\* Faulty variant: the work set is taken in descending order.
FilterPatternsDescending ==
    /\ pc = "filter"
    /\ LET all == generate_date_patterns(config.year, config.month,
                                         config.days, config.hours)
           done == get_processed_files(processed_files)
           asc == SelectSeq(all, LAMBDA p : p \notin done)
           new == [i \in 1..Len(asc) |-> asc[Len(asc) + 1 - i]]
       IN  /\ all_patterns' = all
           /\ processed' = done
           /\ new_patterns' = new
           /\ IF new = <<>>
              THEN /\ client' = "None"
                   /\ pc' = "empty_count"
                   /\ idx' = 0
              ELSE /\ client' = client
                   /\ pc' = "load_before"
                   /\ idx' = 1
    /\ UNCHANGED <<processed_files, wikistat, fixed, before_count, rows,
                   total_inserted, result, exitStatus, faults, history>>

\* run, lines 118-137: enumerate, query the store, compute the work set.
\* An empty work set disconnects and goes to the final count.
FilterPatterns ==
    /\ pc = "filter"
    /\ LET all == generate_date_patterns(config.year, config.month,
                                         config.days, config.hours)
           done == get_processed_files(processed_files)
           new == SelectSeq(all, LAMBDA p : p \notin done)
       IN  /\ all_patterns' = all
           /\ processed' = done
           /\ new_patterns' = new
           /\ IF new = <<>>
              THEN /\ client' = "None"
                   /\ pc' = "empty_count"
                   /\ idx' = 0
              ELSE /\ client' = client
                   /\ pc' = "load_before"
                   /\ idx' = 1
    /\ UNCHANGED <<processed_files, wikistat, fixed, before_count, rows,
                   total_inserted, result, exitStatus, faults, history>>

\* get_processed_files raises: the store is unavailable.
FilterPatternsRaises ==
    /\ pc = "filter"
    /\ Fault("store")
    /\ pc' = "raised"
    /\ storeErr' = TRUE
    /\ fatal' = "store"
    /\ UNCHANGED <<processed_files, wikistat, fixed, client, locals,
                   exitStatus, runs, attempts, countAtStart, prev>>

\* Faulty variant: the early return reports the enumerated files as new.
EmptyCountReportsAll ==
    /\ pc = "empty_count"
    /\ client' = "Client"
    /\ result' = [new_files |-> Len(all_patterns),
                  total_rows |-> get_table_row_count(wikistat)]
    /\ pc' = "returned"
    /\ UNCHANGED <<processed_files, wikistat, fixed, all_patterns,
                   processed, new_patterns, idx, before_count, rows,
                   total_inserted, exitStatus, faults, history>>

\* run, lines 138-139: the count after the disconnect reconnects.
EmptyCount ==
    /\ pc = "empty_count"
    /\ client' = "Client"
    /\ result' = [new_files |-> 0,
                  total_rows |-> get_table_row_count(wikistat)]
    /\ pc' = "returned"
    /\ UNCHANGED <<processed_files, wikistat, fixed, all_patterns,
                   processed, new_patterns, idx, before_count, rows,
                   total_inserted, exitStatus, faults, history>>

\* The count raises, in connect or in the query.
EmptyCountRaises ==
    /\ pc = "empty_count"
    /\ Fault("clickhouse")
    /\ \E c \in {"None", "Client"} : client' = c
    /\ pc' = "raised"
    /\ fatal' = "count"
    /\ UNCHANGED <<processed_files, wikistat, fixed, locals, exitStatus,
                   runs, attempts, storeErr, countAtStart, prev>>

\* Faulty variant: the loop steps over the partition that follows.
AdvanceByTwo ==
    /\ idx' = idx + 2
    /\ pc' = IF idx + 2 > Len(new_patterns) THEN "summary" ELSE "load_before"

\* The for loop's next position after the partition at idx is done.
Advance ==
    /\ idx' = idx + 1
    /\ pc' = IF idx + 1 > Len(new_patterns) THEN "summary" ELSE "load_before"

\* load_pageviews_for_date, line 93: before_count
LoadBefore ==
    /\ pc = "load_before"
    /\ before_count' = get_table_row_count(wikistat)
    /\ attempts' = Append(attempts, NewAttempt(new_patterns[idx]))
    /\ pc' = "load_exec"
    /\ UNCHANGED <<processed_files, wikistat, fixed, client, all_patterns,
                   processed, new_patterns, idx, rows, total_inserted, result,
                   exitStatus, faults, runs, storeErr, fatal, countAtStart,
                   prev>>

\* before_count raises: the error leaves load_pageviews_for_date.
LoadBeforeRaises ==
    /\ pc = "load_before"
    /\ Fault("load")
    /\ attempts' = Append(attempts,
                          [NewAttempt(new_patterns[idx]) EXCEPT !.raised = TRUE])
    /\ pc' = "except"
    /\ UNCHANGED <<processed_files, wikistat, fixed, client, locals,
                   exitStatus, runs, storeErr, fatal, countAtStart,
                   prev>>

\* Faulty variant: the except clause does not catch the error of the load.
LoadExecuteRaisesUncaught ==
    /\ pc = "load_exec"
    /\ Fault("load")
    /\ attempts' = SetCur("raised", TRUE)
    /\ pc' = "raised"
    /\ UNCHANGED <<processed_files, wikistat, fixed, client, locals,
                   exitStatus, runs, storeErr, fatal, countAtStart,
                   prev>>

\* load_pageviews_for_date, line 101: execute_sql_file runs the load statement
LoadExecute ==
    /\ pc = "load_exec"
    /\ LET n == sourceRows[new_patterns[idx]]
       IN  /\ wikistat' = AppendRows(wikistat, new_patterns[idx], n)
           /\ attempts' = SetCur("appended", n)
    /\ pc' = "load_after"
    /\ UNCHANGED <<processed_files, fixed, client, locals, exitStatus,
                   faults, runs, storeErr, fatal, countAtStart, prev>>

\* The load statement raises and appends nothing.
LoadExecuteRaises ==
    /\ pc = "load_exec"
    /\ Fault("load")
    /\ attempts' = SetCur("raised", TRUE)
    /\ pc' = "except"
    /\ UNCHANGED <<processed_files, wikistat, fixed, client, locals,
                   exitStatus, runs, storeErr, fatal, countAtStart,
                   prev>>

\* Faulty variant: the count after the load is returned as it is.
LoadAfterNoDifference ==
    /\ pc = "load_after"
    /\ rows' = get_table_row_count(wikistat)
    /\ pc' = "mark_success"
    /\ UNCHANGED <<processed_files, wikistat, fixed, client, all_patterns,
                   processed, new_patterns, idx, before_count, total_inserted,
                   result, exitStatus, faults, history>>

\* load_pageviews_for_date, lines 103-107: after_count, the row delta
LoadAfter ==
    /\ pc = "load_after"
    /\ rows' = get_table_row_count(wikistat) - before_count
    /\ pc' = "mark_success"
    /\ UNCHANGED <<processed_files, wikistat, fixed, client, all_patterns,
                   processed, new_patterns, idx, before_count, total_inserted,
                   result, exitStatus, faults, history>>

\* after_count raises, after the load statement has appended its rows.
LoadAfterRaises ==
    /\ pc = "load_after"
    /\ Fault("load")
    /\ attempts' = SetCur("raised", TRUE)
    /\ pc' = "except"
    /\ UNCHANGED <<processed_files, wikistat, fixed, client, locals,
                   exitStatus, runs, storeErr, fatal, countAtStart,
                   prev>>

\* Faulty variant: the success record is not committed to the store.
MarkSuccessNotCommitted ==
    /\ pc = "mark_success"
    /\ total_inserted' = total_inserted + rows
    /\ attempts' = [attempts EXCEPT ![Len(attempts)] =
                       [@ EXCEPT !.status = "success", !.rows_inserted = rows]]
    /\ Advance
    /\ UNCHANGED <<processed_files, wikistat, fixed, client, all_patterns,
                   processed, new_patterns, before_count, rows, result,
                   exitStatus, faults, runs, storeErr, fatal, countAtStart,
                   prev>>

\* run, lines 148-149: record success, add to the total
MarkSuccess ==
    /\ pc = "mark_success"
    /\ processed_files' = mark_file_processed(processed_files, new_patterns[idx],
                                              rows, Now, "success")
    /\ total_inserted' = total_inserted + rows
    /\ attempts' = [attempts EXCEPT ![Len(attempts)] =
                       [@ EXCEPT !.status = "success", !.rows_inserted = rows]]
    /\ Advance
    /\ UNCHANGED <<wikistat, fixed, client, all_patterns, processed,
                   new_patterns, before_count, rows, result, exitStatus,
                   faults, runs, storeErr, fatal, countAtStart, prev>>

\* mark_file_processed raises inside the try block: caught at line 150
MarkSuccessRaises ==
    /\ pc = "mark_success"
    /\ Fault("store")
    /\ storeErr' = TRUE
    /\ pc' = "except"
    /\ UNCHANGED <<processed_files, wikistat, fixed, client, locals,
                   exitStatus, runs, attempts, fatal, countAtStart, prev>>

\* Faulty variant: the except block records the failure and leaves the loop.
MarkFailedBreaks ==
    /\ pc = "except"
    /\ processed_files' = mark_file_processed(processed_files, new_patterns[idx],
                                              0, Now, "failed")
    /\ attempts' = [attempts EXCEPT ![Len(attempts)] =
                       [@ EXCEPT !.status = "failed", !.rows_inserted = 0]]
    /\ idx' = idx + 1
    /\ pc' = "summary"
    /\ UNCHANGED <<wikistat, fixed, client, all_patterns, processed,
                   new_patterns, before_count, rows, total_inserted, result,
                   exitStatus, faults, runs, storeErr, fatal, countAtStart,
                   prev>>

\* run, lines 150-152: the except block records the failure and continues
MarkFailed ==
    /\ pc = "except"
    /\ processed_files' = mark_file_processed(processed_files, new_patterns[idx],
                                              0, Now, "failed")
    /\ attempts' = [attempts EXCEPT ![Len(attempts)] =
                       [@ EXCEPT !.status = "failed", !.rows_inserted = 0]]
    /\ Advance
    /\ UNCHANGED <<wikistat, fixed, client, all_patterns, processed,
                   new_patterns, before_count, rows, total_inserted, result,
                   exitStatus, faults, runs, storeErr, fatal, countAtStart,
                   prev>>

\* mark_file_processed raises inside the except block: nothing catches it
MarkFailedRaises ==
    /\ pc = "except"
    /\ Fault("store")
    /\ storeErr' = TRUE
    /\ fatal' = "store"
    /\ pc' = "raised"
    /\ UNCHANGED <<processed_files, wikistat, fixed, client, locals,
                   exitStatus, runs, attempts, countAtStart, prev>>

\* run, lines 154-168: disconnect, final count (which reconnects), summary
Summary ==
    /\ pc = "summary"
    /\ client' = "Client"
    /\ result' = [new_files |-> Len(new_patterns),
                  rows_inserted |-> total_inserted,
                  total_rows |-> get_table_row_count(wikistat)]
    /\ pc' = "returned"
    /\ UNCHANGED <<processed_files, wikistat, fixed, all_patterns,
                   processed, new_patterns, idx, before_count, rows,
                   total_inserted, exitStatus, faults, history>>

\* The final count raises, in connect or in the query.
SummaryRaises ==
    /\ pc = "summary"
    /\ Fault("clickhouse")
    /\ \E c \in {"None", "Client"} : client' = c
    /\ fatal' = "count"
    /\ pc' = "raised"
    /\ UNCHANGED <<processed_files, wikistat, fixed, locals, exitStatus,
                   runs, attempts, storeErr, countAtStart, prev>>

\* run_simple_incremental.py, lines 11-21: run returned, the report
EntryReturn ==
    /\ pc = "returned"
    /\ ProcessExit("success")
    /\ UNCHANGED <<processed_files, wikistat, fixed, faults, history>>

\* run_simple_incremental.py, lines 23-25: run raised, report and re-raise
EntryExcept ==
    /\ pc = "raised"
    /\ ProcessExit("failure")
    /\ UNCHANGED <<processed_files, wikistat, fixed, faults, history>>

\* The process is killed from outside, between any two steps of run.
Kill ==
    /\ pc \notin {"idle", "returned", "raised"}
    /\ Fault("kill")
    /\ ProcessExit("killed")
    /\ UNCHANGED <<processed_files, wikistat, fixed, history>>

Next ==
    \/ StartRun
    \/ SetupTables
    \/ SetupTablesRaises
    \/ FilterPatterns
    \/ FilterPatternsRaises
    \/ EmptyCount
    \/ EmptyCountRaises
    \/ LoadBefore
    \/ LoadBeforeRaises
    \/ LoadExecute
    \/ LoadExecuteRaises
    \/ LoadAfter
    \/ LoadAfterRaises
    \/ MarkSuccess
    \/ MarkSuccessRaises
    \/ MarkFailed
    \/ MarkFailedRaises
    \/ Summary
    \/ SummaryRaises
    \/ EntryReturn
    \/ EntryExcept
    \/ Kill

Spec == Init /\ [][Next]_vars

\* ------------------------------------------------------------- properties
\* Positions of run after the work set is computed, while the process lives.
AfterFilter ==
    {"empty_count", "load_before", "load_exec", "load_after", "mark_success",
     "except", "summary", "returned"}

\* The for loop is over.
LoopDone == pc \in {"summary", "returned"}

AttemptedSet(a) == {a[i].pattern : i \in 1..Len(a)}

RecordsOf(p) == {r \in processed_files : r.file_pattern = p}

\* Number of times the load statement of partition p completed.
Loads(p) == Len(wikistat[p])

\* C1: over sequential runs in which only loads fail (no store fault, no
\* kill), the load statement of a partition completes at most once: no
\* partition's rows are appended to the target table twice.
C1_NoDuplicateLoad ==
    (faults["kill"] = 0 /\ faults["store"] = 0)
        => \A p \in ConfiguredPatterns : Loads(p) <= 1

\* The record the store must hold for a finished attempt of this run.
ExpectedRecord(a) ==
    [file_pattern |-> a.pattern,
     rows_inserted |-> IF a.raised THEN 0 ELSE a.appended,
     processed_at |-> runs,
     status |-> IF a.raised THEN "failed" ELSE "success"]

\* C2: failure isolation.  With the store answering, every partition of the
\* work set is attempted in order; a finished attempt whose load raised is
\* recorded failed with 0 rows, every other one success with the rows its own
\* load appended; after the loop the whole work set was attempted and the
\* failed records are as many as the loads that raised.
C2_FailureIsolation ==
    (pc \in AfterFilter /\ ~storeErr) =>
        /\ Len(attempts) <= Len(new_patterns)
        /\ \A i \in 1..Len(attempts) :
              /\ attempts[i].pattern = new_patterns[i]
              /\ (i < idx \/ LoopDone) =>
                    RecordsOf(attempts[i].pattern) = {ExpectedRecord(attempts[i])}
        /\ LoopDone =>
              /\ Len(attempts) = Len(new_patterns)
              /\ Cardinality({r \in processed_files :
                                 r.processed_at = runs /\ r.status = "failed"})
                    = Cardinality({i \in 1..Len(attempts) : attempts[i].raised})

\* A run in which a partition between two successful ones failed is over.
C2_Witness ==
    /\ pc = "returned"
    /\ ~storeErr
    /\ Len(attempts) >= 3
    /\ \E i \in 2..(Len(attempts) - 1) :
          /\ attempts[i].raised /\ attempts[i].status = "failed"
          /\ ~attempts[i - 1].raised /\ attempts[i - 1].status = "success"
          /\ ~attempts[i + 1].raised /\ attempts[i + 1].status = "success"
          /\ attempts[i + 1].rows_inserted > 0

\* The previous process returned from run and the entry point reported
\* success; a second run has computed its work set.
SecondRunFiltered ==
    /\ runs >= 2
    /\ prev.exitStatus = "success"
    /\ pc \in AfterFilter

\* C3 as stated: whatever the first run recorded, the second of two runs
\* attempts nothing and skips as many partitions as are enumerated.
C3_AsStated ==
    SecondRunFiltered =>
        /\ new_patterns = <<>>
        /\ attempts = <<>>
        /\ Cardinality(processed) = Len(all_patterns)

\* C3, amended: when the first run returned with no partition recorded as
\* failed, the second run attempts nothing and its skipped count equals the
\* number of enumerated partitions.
C3_Idempotence ==
    (/\ SecondRunFiltered
     /\ \A i \in 1..Len(prev.attempts) : prev.attempts[i].status = "success")
        => /\ new_patterns = <<>>
           /\ attempts = <<>>
           /\ Cardinality(processed) = Len(all_patterns)

\* The second of two runs returned after a first run that loaded partitions,
\* all of them with success.
C3_Witness ==
    /\ SecondRunFiltered
    /\ pc = "returned"
    /\ result.new_files = 0
    /\ prev.attempts # <<>>
    /\ \A i \in 1..Len(prev.attempts) : prev.attempts[i].status = "success"

\* C4: in the run that follows another, every partition whose load raised in
\* the earlier run is in the work set and, once the loop is over, was
\* attempted again; no partition the earlier run recorded as success is in
\* the work set.
C4_Convergence ==
    (runs >= 2 /\ pc \in AfterFilter) =>
        \A i \in 1..Len(prev.attempts) :
            LET a == prev.attempts[i]
            IN  /\ a.raised =>
                      /\ a.pattern \in Range(new_patterns)
                      /\ LoopDone => a.pattern \in AttemptedSet(attempts)
                /\ a.status = "success" =>
                      /\ a.pattern \notin Range(new_patterns)
                      /\ a.pattern \notin AttemptedSet(attempts)

\* The run after one with a failed load and a successful one is over.
C4_Witness ==
    /\ runs >= 2
    /\ pc = "returned"
    /\ \E i \in 1..Len(prev.attempts) :
          prev.attempts[i].raised /\ prev.attempts[i].status = "failed"
    /\ \E i \in 1..Len(prev.attempts) : prev.attempts[i].status = "success"
    /\ attempts # <<>>

\* The previous process was killed; the next run has computed its work set.
AfterKilledRun ==
    /\ runs >= 2
    /\ prev.exitStatus = "killed"
    /\ pc \in AfterFilter

\* C5 as stated: after a killed run, the partitions it recorded as success
\* are skipped, and of the partitions it had started at most one, the one in
\* flight, is attempted again.
C5_AsStated ==
    AfterKilledRun =>
        /\ \A i \in 1..Len(prev.attempts) :
              prev.attempts[i].status = "success" =>
                  /\ prev.attempts[i].pattern \in processed
                  /\ prev.attempts[i].pattern \notin Range(new_patterns)
        /\ Cardinality(AttemptedSet(prev.attempts) \cap AttemptedSet(attempts)) <= 1

\* C5, amended: after a killed run, the partitions it recorded as success
\* are in the already-succeeded set and are not attempted again; the
\* partitions it had started that are attempted again are the one in flight
\* at the kill and those it recorded as failed.
C5_KilledRun ==
    AfterKilledRun =>
        \A i \in 1..Len(prev.attempts) :
            LET a == prev.attempts[i]
            IN  /\ a.status = "success" =>
                      /\ a.pattern \in processed
                      /\ a.pattern \notin Range(new_patterns)
                      /\ a.pattern \notin AttemptedSet(attempts)
                /\ a.pattern \in Range(new_patterns) =>
                      \/ a.status = "failed"
                      \/ i = Len(prev.attempts) /\ a.status = "none"

\* A run killed with one partition recorded and one in flight was followed
\* by a run that loaded the one in flight again.
C5_Witness ==
    /\ AfterKilledRun
    /\ pc = "returned"
    /\ Len(prev.attempts) >= 2
    /\ prev.attempts[1].status = "success"
    /\ prev.attempts[Len(prev.attempts)].status = "none"
    /\ prev.attempts[Len(prev.attempts)].pattern \in AttemptedSet(attempts)

\* The process is between two partitions, or there is no process.
BetweenPartitions == pc \in {"idle", "load_before", "summary", "returned"}

\* C6 as stated: between partitions, also after a kill between load and
\* record, the partitions recorded as success are exactly the partitions
\* whose load statement completed on the target table.
C6_StoreMatchesTable ==
    BetweenPartitions =>
        get_processed_files(processed_files)
            = {p \in ConfiguredPatterns : Loads(p) > 0}

\* Sum of the rows_inserted of the attempts of this run recorded as success.
RECURSIVE SuccessRows(_)
SuccessRows(a) ==
    IF a = <<>> THEN 0
    ELSE (IF Head(a).status = "success" THEN Head(a).rows_inserted ELSE 0)
            + SuccessRows(Tail(a))

\* C7 as stated: the rows_inserted a run returns is the sum of the row deltas
\* of the partitions it recorded as success, and it is the growth of the
\* target table over the run.
C7_RowAccounting ==
    (pc = "returned" /\ new_patterns # <<>>) =>
        /\ result.rows_inserted = SuccessRows(attempts)
        /\ result.rows_inserted = get_table_row_count(wikistat) - countAtStart

\* C8: the store holds at most one record per identifier, and for every
\* identifier recorded in this run that record is exactly what the latest
\* call wrote: its rows_inserted, its status, its time.
C8_Upsert ==
    /\ \A p \in ConfiguredPatterns : Cardinality(RecordsOf(p)) <= 1
    /\ \A i \in 1..Len(attempts) :
          attempts[i].status # "none" =>
              RecordsOf(attempts[i].pattern) =
                  {[file_pattern |-> attempts[i].pattern,
                    rows_inserted |-> attempts[i].rows_inserted,
                    processed_at |-> runs,
                    status |-> attempts[i].status]}

\* A partition recorded as failed by the previous run was recorded again as
\* success, with rows, by this one.
C8_Witness ==
    \E i \in 1..Len(attempts) : \E j \in 1..Len(prev.attempts) :
        /\ prev.attempts[j].pattern = attempts[i].pattern
        /\ prev.attempts[j].status = "failed"
        /\ attempts[i].status = "success"
        /\ attempts[i].rows_inserted > 0

\* C9 as stated: once a progress-store call has raised in a run, that run
\* loads no further partition and writes no further record.
C9_StoreFailureAborts ==
    [][(storeErr /\ pc # "idle") =>
          (processed_files' = processed_files /\ wikistat' = wikistat)]_vars

\* C10: no error of a load leaves run.  A run that raised did so on a call
\* outside the loads (the setup, the store, a final count); with the store
\* answering, a run that returned attempted its whole work set and reports
\* it, and the entry point reports failure only for a run that raised.
C10_LoadErrorsSwallowed ==
    /\ pc = "raised" => fatal # "none"
    /\ (pc = "returned" /\ new_patterns # <<>> /\ ~storeErr) =>
          /\ AttemptedSet(attempts) = Range(new_patterns)
          /\ \A i \in 1..Len(attempts) : attempts[i].status # "none"
          /\ result.new_files = Len(new_patterns)
    /\ exitStatus = "failure" => fatal # "none"
    /\ (pc = "idle" /\ runs > 0 /\ fatal = "none" /\ exitStatus # "killed")
          => exitStatus = "success"

\* Every load of a run with at least two partitions raised, and the entry
\* point reported success.
C10_Witness ==
    /\ pc = "idle"
    /\ exitStatus = "success"
    /\ ~storeErr
    /\ Len(attempts) >= 2
    /\ \A i \in 1..Len(attempts) :
          attempts[i].raised /\ attempts[i].status = "failed"

\* ------------------------------------- generate_date_patterns by itself
\* The arguments of the calls: one-digit and two-digit months, days and hours,
\* lists of every length up to MaxListLen, the empty list included.
MonthValues == {1, 12}
DayValues == {1, 2, 31}
HourValues == {0, 1, 23}

SeqsUpTo(S, n) == UNION {[1..k -> S] : k \in 0..n}

EnumArguments ==
    [year : {ConfigYear}, month : MonthValues,
     days : SeqsUpTo(DayValues, MaxListLen),
     hours : SeqsUpTo(HourValues, MaxListLen)]

InitEnum ==
    /\ config \in EnumArguments
    /\ processed_files = {}
    /\ wikistat = [p \in {} |-> <<>>]
    /\ sourceRows = [p \in {} |-> 0]
    /\ NoProcess
    /\ conc = NoConc
    /\ dlt = NoDlt

\* patterns = self.generate_date_patterns(year, month, days, hours), called
\* any number of times with the same arguments.
CallGenerateDatePatterns ==
    /\ pc \in {"idle", "enumerated"}
    /\ all_patterns' = generate_date_patterns(config.year, config.month,
                                              config.days, config.hours)
    /\ pc' = "enumerated"
    /\ UNCHANGED <<processed_files, wikistat, fixed, client, processed,
                   new_patterns, idx, before_count, rows, total_inserted,
                   result, exitStatus, faults, history>>

NextEnum == CallGenerateDatePatterns

SpecEnum == InitEnum /\ [][NextEnum]_vars

\* C11: generate_date_patterns returns len(days) * len(hours) identifiers, the
\* identifier of (days[i], hours[j]) at index i * len(hours) + j counted from
\* zero (all hours of the first day, then all hours of the second, ...), the
\* empty sequence when either list is empty, the same sequence at every call,
\* and it touches neither the store nor the table.
C11_Enumeration ==
    pc = "enumerated" =>
        LET d == config.days
            h == config.hours
        IN  /\ Len(all_patterns) = Len(d) * Len(h)
            /\ \A i \in 1..Len(d), j \in 1..Len(h) :
                  all_patterns[(i - 1) * Len(h) + j]
                      = FilePattern(config.year, config.month, d[i], h[j])
            /\ (d = <<>> \/ h = <<>>) => all_patterns = <<>>
            /\ processed_files = {}
            /\ client = "None"

\* Two different days and two different hours have been enumerated.
C11_Witness ==
    /\ pc = "enumerated"
    /\ Len(config.days) = 2
    /\ Len(config.hours) = 2
    /\ config.days[1] # config.days[2]
    /\ config.hours[1] # config.hours[2]
    /\ Len(all_patterns) = 4

\* ------------------------------------------------------ the work set
\* The work set has just been computed: the store is as the query saw it.
JustFiltered ==
    \/ pc = "empty_count"
    \/ pc = "load_before" /\ idx = 1 /\ attempts = <<>>

HasRecord(p, status) ==
    \E r \in processed_files : r.file_pattern = p /\ r.status = status

IndexIn(s, x) == CHOOSE i \in 1..Len(s) : s[i] = x

\* C12: the work set holds exactly the enumerated identifiers that have no
\* 'success' record in the store when it is queried, those recorded 'failed'
\* and those never recorded included, in the order of the enumeration.
C12_WorkSet ==
    JustFiltered =>
        /\ all_patterns = generate_date_patterns(config.year, config.month,
                                                 config.days, config.hours)
        /\ Range(new_patterns) \subseteq Range(all_patterns)
        /\ \A p \in Range(all_patterns) :
              p \in Range(new_patterns) <=> ~HasRecord(p, "success")
        /\ \A i, j \in 1..Len(new_patterns) :
              i < j => IndexIn(all_patterns, new_patterns[i])
                           < IndexIn(all_patterns, new_patterns[j])

\* A work set of several partitions, one recorded 'failed' and one never
\* recorded, next to a partition left out for its 'success' record.
C12_Witness ==
    /\ JustFiltered
    /\ Len(new_patterns) >= 2
    /\ \E p \in Range(new_patterns) : HasRecord(p, "failed")
    /\ \E p \in Range(new_patterns) : RecordsOf(p) = {}
    /\ \E p \in Range(all_patterns) \ Range(new_patterns) : HasRecord(p, "success")

\* ------------------------------------------- runs under other configurations
\* WIKIPEDIA_CONFIG edited: valid values, values outside the calendar, and a
\* day listed twice.
RunConfigs ==
    [year : {ConfigYear}, month : {1, 13},
     days : {<<1>>, <<32>>, <<1, 1>>}, hours : {<<0, 1>>, <<24>>}]

InitConfig ==
    /\ config \in RunConfigs
    /\ processed_files = {}
    /\ LET all == generate_date_patterns(config.year, config.month,
                                         config.days, config.hours)
       IN  /\ wikistat = [p \in Range(all) |-> <<>>]
           /\ \E k \in 0..MaxRows :
                 sourceRows = [p \in Range(all) |-> k * IndexIn(all, p)]
    /\ NoProcess
    /\ conc = NoConc
    /\ dlt = NoDlt

SpecConfig == InitConfig /\ [][Next]_vars

InvalidConfig ==
    \/ config.month \notin 1..12
    \/ \E i \in 1..Len(config.days) : config.days[i] \notin 1..31
    \/ \E j \in 1..Len(config.hours) : config.hours[j] \notin 0..23

\* C13: under a configuration with a month outside 1..12, a day outside 1..31
\* or an hour outside 0..23 the run fails in the enumeration, before any work:
\* no identifier is produced, no load is invoked, no record is written.
C13_InvalidConfigRejected ==
    InvalidConfig =>
        /\ all_patterns = <<>>
        /\ pc \notin AfterFilter
        /\ attempts = <<>>
        /\ processed_files = {}
        /\ get_table_row_count(wikistat) = 0

\* ------------------------------------------------- the empty work set
\* The run found nothing to do: it is at the early return of lines 135-139.
EmptyWorkSet ==
    /\ pc \in {"empty_count", "returned", "raised"}
    /\ fatal \in {"none", "count"}
    /\ new_patterns = <<>>

\* C14: a run with an empty work set invokes no load, writes no record and
\* leaves the store and the target table as they were; it returns
\* {new_files: 0, total_rows: the unchanged count}, and nothing but its final
\* row count raising keeps it from returning.
C14_EmptyWorkSet ==
    EmptyWorkSet =>
        /\ attempts = <<>>
        /\ \A r \in processed_files : r.processed_at < Now
        /\ get_table_row_count(wikistat) = countAtStart
        /\ pc = "returned" =>
              result = [new_files |-> 0, total_rows |-> countAtStart]
        /\ pc = "raised" => fatal = "count"

\* A later run returned from the early return, over a table that holds rows.
C14_Witness ==
    /\ pc = "returned"
    /\ new_patterns = <<>>
    /\ all_patterns # <<>>
    /\ result.new_files = 0
    /\ countAtStart > 0

\* ------------------------------------------------- the load by itself
\* C15: a load that raised added no row to the target table, and a partition
\* recorded 'failed' added none.
C15_NoPartialApplication ==
    \A i \in 1..Len(attempts) :
        (attempts[i].raised \/ attempts[i].status = "failed")
            => attempts[i].appended <= 0

\* C16: with the run as the only writer, load_pageviews_for_date returns the
\* count after its load minus the count before it, which is the number of rows
\* its load statement appended and is not negative.
C16_RowDelta ==
    pc = "mark_success" =>
        /\ rows = get_table_row_count(wikistat) - before_count
        /\ rows = attempts[Len(attempts)].appended
        /\ rows >= 0

\* A load returned a positive delta over a table that already held rows.
C16_Witness ==
    /\ pc = "mark_success"
    /\ before_count > 0
    /\ rows > 0
    /\ rows # get_table_row_count(wikistat)

\* ------------------------------------------------------ overlapping runs
\* Two processes run SimpleIncrementalPipeline.run at the same time; a step
\* of one may fall between any two steps of the other.  The store and the
\* table are shared, every process has its own locals in conc[r].
OutsideConc ==
    UNCHANGED <<sourceRows, config, dlt, client, pc, locals, exitStatus,
                history>>

LogEntry(p) ==
    [pattern |-> p, appended |-> -1, status |-> "none", rows_inserted |-> 0]

\* conc[r] with the last entry of its log changed
LogSet(run, field, value) ==
    [run.log EXCEPT ![Len(run.log)] = [@ EXCEPT ![field] = value]]

\* the for loop of run r moves to its next partition, or run returns
RunAdvance(run) ==
    [run EXCEPT !.idx = @ + 1,
                !.pc = IF run.idx + 1 > Len(run.new_patterns)
                       THEN "returned" ELSE "load_before"]

\* process r starts: __init__ and setup_tables (every statement IF NOT EXISTS)
RunSetup(r) ==
    /\ conc[r].pc = "idle"
    /\ conc' = [conc EXCEPT ![r].pc = "filter"]
    /\ UNCHANGED <<processed_files, wikistat, faults>>
    /\ OutsideConc

\* run, lines 118-139 in process r
RunFilter(r) ==
    /\ conc[r].pc = "filter"
    /\ LET all == generate_date_patterns(config.year, config.month,
                                         config.days, config.hours)
           done == get_processed_files(processed_files)
           new == SelectSeq(all, LAMBDA p : p \notin done)
       IN  conc' = [conc EXCEPT ![r] =
                       [@ EXCEPT !.new_patterns = new,
                                 !.idx = IF new = <<>> THEN 0 ELSE 1,
                                 !.pc = IF new = <<>> THEN "returned"
                                        ELSE "load_before"]]
    /\ UNCHANGED <<processed_files, wikistat, faults>>
    /\ OutsideConc

\* load_pageviews_for_date, line 93, in process r
RunLoadBefore(r) ==
    /\ conc[r].pc = "load_before"
    /\ conc' = [conc EXCEPT ![r] =
                   [@ EXCEPT !.before_count = get_table_row_count(wikistat),
                             !.log = Append(@, LogEntry(conc[r].new_patterns[conc[r].idx])),
                             !.pc = "load_exec"]]
    /\ UNCHANGED <<processed_files, wikistat, faults>>
    /\ OutsideConc

\* load_pageviews_for_date, line 101, in process r
RunLoadExecute(r) ==
    /\ conc[r].pc = "load_exec"
    /\ LET p == conc[r].new_patterns[conc[r].idx]
           n == sourceRows[p]
       IN  /\ wikistat' = AppendRows(wikistat, p, n)
           /\ conc' = [conc EXCEPT ![r] =
                          [@ EXCEPT !.log = LogSet(conc[r], "appended", n),
                                    !.pc = "load_after"]]
    /\ UNCHANGED <<processed_files, faults>>
    /\ OutsideConc

\* the load statement of process r raises and appends nothing
RunLoadExecuteRaises(r) ==
    /\ conc[r].pc = "load_exec"
    /\ Fault("load")
    /\ conc' = [conc EXCEPT ![r].pc = "except"]
    /\ UNCHANGED <<processed_files, wikistat>>
    /\ OutsideConc

\* load_pageviews_for_date, lines 103-107, in process r
RunLoadAfter(r) ==
    /\ conc[r].pc = "load_after"
    /\ conc' = [conc EXCEPT ![r] =
                   [@ EXCEPT !.rows = get_table_row_count(wikistat)
                                          - conc[r].before_count,
                             !.pc = "mark_success"]]
    /\ UNCHANGED <<processed_files, wikistat, faults>>
    /\ OutsideConc

\* Faulty variant: the loop does not move on after a success.
RunMarkSuccessStays(r) ==
    /\ conc[r].pc = "mark_success"
    /\ processed_files' =
          mark_file_processed(processed_files,
                              conc[r].new_patterns[conc[r].idx],
                              conc[r].rows, Now, "success")
    /\ conc' = [conc EXCEPT ![r] =
                   [@ EXCEPT !.log =
                                 [conc[r].log EXCEPT ![Len(conc[r].log)] =
                                     [@ EXCEPT !.status = "success",
                                               !.rows_inserted = conc[r].rows]],
                             !.pc = IF Len(conc[r].log) > Len(conc[r].new_patterns)
                                    THEN "returned" ELSE "load_before"]]
    /\ UNCHANGED <<wikistat, faults>>
    /\ OutsideConc

\* run, lines 148-149, in process r
RunMarkSuccess(r) ==
    /\ conc[r].pc = "mark_success"
    /\ processed_files' =
          mark_file_processed(processed_files,
                              conc[r].new_patterns[conc[r].idx],
                              conc[r].rows, Now, "success")
    /\ conc' = [conc EXCEPT ![r] =
                   RunAdvance([@ EXCEPT !.log =
                       [conc[r].log EXCEPT ![Len(conc[r].log)] =
                           [@ EXCEPT !.status = "success",
                                     !.rows_inserted = conc[r].rows]]])]
    /\ UNCHANGED <<wikistat, faults>>
    /\ OutsideConc

\* run, lines 150-152, in process r
RunMarkFailed(r) ==
    /\ conc[r].pc = "except"
    /\ processed_files' =
          mark_file_processed(processed_files,
                              conc[r].new_patterns[conc[r].idx],
                              0, Now, "failed")
    /\ conc' = [conc EXCEPT ![r] =
                   RunAdvance([@ EXCEPT !.log = LogSet(conc[r], "status", "failed")])]
    /\ UNCHANGED <<wikistat, faults>>
    /\ OutsideConc

NextConc ==
    \E r \in ConcurrentRuns :
        \/ RunSetup(r)
        \/ RunFilter(r)
        \/ RunLoadBefore(r)
        \/ RunLoadExecute(r)
        \/ RunLoadExecuteRaises(r)
        \/ RunLoadAfter(r)
        \/ RunMarkSuccess(r)
        \/ RunMarkFailed(r)

\* Both processes are configured for the first day of config.py only.
InitConc ==
    /\ config = [WIKIPEDIA_CONFIG EXCEPT !.days = <<Head(ConfigDays)>>]
    /\ processed_files = {}
    /\ wikistat = [p \in ConfiguredPatterns |-> <<>>]
    /\ \E k \in 0..MaxRows :
          sourceRows = [p \in ConfiguredPatterns |-> k * PositionOf(p)]
    /\ NoProcess
    /\ conc = NoConc
    /\ dlt = NoDlt

SpecConc == InitConc /\ [][NextConc]_vars

\* Number of times process r appended partition p.
LoadsBy(r, p) ==
    Cardinality({i \in 1..Len(conc[r].log) :
                    conc[r].log[i].pattern = p /\ conc[r].log[i].appended >= 0})

\* The same partition was loaded by both processes.
LoadedByBoth == \E p \in ConfiguredPatterns : Loads(p) = 2

\* A 'success' record one process wrote was replaced by 'failed'.
SuccessOverwritten ==
    \E r \in ConcurrentRuns : \E i \in 1..Len(conc[r].log) :
        /\ conc[r].log[i].status = "success"
        /\ HasRecord(conc[r].log[i].pattern, "failed")

\* A process recorded a row count that is not what its own load appended.
WrongDelta ==
    \E r \in ConcurrentRuns : \E i \in 1..Len(conc[r].log) :
        /\ conc[r].log[i].status = "success"
        /\ conc[r].log[i].rows_inserted # conc[r].log[i].appended

\* C17: overlapping runs are not safe, and the damage comes from the overlap
\* alone: each process still loads a partition of its work set at most once
\* and never records fewer rows than it appended, so a partition is in the
\* table twice only when both processes had it in their work sets; the states
\* in which a partition was loaded by both, a 'success' was overwritten by
\* 'failed' and a recorded count is wrong are reachable (C17_Witness).
C17_ConcurrentRuns ==
    \A p \in ConfiguredPatterns :
        /\ \A r \in ConcurrentRuns :
              /\ LoadsBy(r, p) <= 1
              /\ LoadsBy(r, p) = 1 => p \in Range(conc[r].new_patterns)
        /\ Loads(p) = SumOver([r \in ConcurrentRuns |-> LoadsBy(r, p)],
                              ConcurrentRuns)
        /\ Loads(p) = 2 =>
              \A r \in ConcurrentRuns : p \in Range(conc[r].new_patterns)
        /\ \A r \in ConcurrentRuns : \A i \in 1..Len(conc[r].log) :
              conc[r].log[i].status = "success"
                  => conc[r].log[i].rows_inserted >= conc[r].log[i].appended

\* The three unsafe outcomes of the overlap, in one state.
C17_Witness ==
    /\ LoadedByBoth
    /\ SuccessOverwritten
    /\ WrongDelta

\* ------------------------------------------- records outside the work set
\* C18: no step of a sequential run changes the record of a partition outside
\* the run's work set: a record changes only for the partition the loop is
\* at, which had no 'success' record; so every 'success' record stays as it
\* is, and the set of partitions recorded 'success' only grows.
C18_RecordsOutsideWorkSet ==
    [][/\ \A p \in ConfiguredPatterns :
             RecordsOf(p)' # RecordsOf(p) =>
                 /\ pc \in {"mark_success", "except"}
                 /\ p = new_patterns[idx]
                 /\ p \in Range(new_patterns)
                 /\ ~HasRecord(p, "success")
       /\ \A r \in processed_files : r.status = "success" => r \in processed_files'
       /\ get_processed_files(processed_files)
              \subseteq get_processed_files(processed_files')
      ]_vars

\* A later run has recorded a failure while a 'success' record of an earlier
\* run, for a partition outside its work set, is still in the store.
C18_Witness ==
    /\ runs = 2
    /\ pc \in AfterFilter
    /\ \E r \in processed_files :
          /\ r.status = "success"
          /\ r.processed_at = 1
          /\ r.file_pattern \notin Range(new_patterns)
    /\ \E r \in processed_files : r.status = "failed" /\ r.processed_at = 2

\* ------------------------------------------------ one partition at a time
\* C20: the partitions are processed one after the other in the order of the
\* work set: the k-th load of a run is for the k-th partition of the work
\* set, and when it begins every earlier partition has its record of this run
\* in the store; at most one load is in progress.
C20_Sequential ==
    (pc \in AfterFilter /\ new_patterns # <<>>) =>
        /\ Len(attempts) <= Len(new_patterns)
        /\ \A i \in 1..Len(attempts) : attempts[i].pattern = new_patterns[i]
        /\ \A i \in 1..(Len(attempts) - 1) :
              /\ attempts[i].status \in {"success", "failed"}
              /\ \E r \in RecordsOf(attempts[i].pattern) :
                    r.processed_at = Now /\ r.status = attempts[i].status
        /\ Len(attempts) = IF pc \in {"load_exec", "load_after",
                                      "mark_success", "except"}
                           THEN idx ELSE idx - 1
        /\ pc \in {"load_before", "summary", "returned"} =>
              \A i \in 1..Len(attempts) : attempts[i].status # "none"

\* The third load of a run is in progress, after a failed and a successful one.
C20_Witness ==
    /\ pc = "load_after"
    /\ Len(attempts) = 3
    /\ attempts[1].status = "failed"
    /\ attempts[2].status = "success"
    /\ attempts[3].status = "none"

\* ------------------------------------------------------- the dlt variant
\* WikipediaDataEngineeringPipelineIncremental.run: the processed partitions
\* are a list in the dlt pipeline state instead of rows of a table.
OutsideDlt ==
    UNCHANGED <<processed_files, sourceRows, config, conc, client, pc, locals,
                exitStatus, history>>

\* The process is gone: what it held in memory is gone with it.
DltProcessExit(d, how) ==
    [d EXCEPT !.pc = "idle", !.pipeline_state = {}, !.processed_files = {},
              !.patterns_to_process = <<>>, !.idx = 0, !.stats = <<>>,
              !.loaded = {}, !.exit = how]

\* The for loop of lines 144-167 moves on; after it, line 170.
DltAdvance(d) ==
    [d EXCEPT !.idx = @ + 1,
              !.pc = IF d.idx + 1 > Len(d.patterns_to_process)
                     THEN "update_state" ELSE "load"]

\* python -m pipeline.wikipedia_pipeline_incremental: a new process
DltStartRun ==
    /\ dlt.pc = "idle"
    /\ dlt.runs < MaxRuns
    /\ dlt' = [dlt EXCEPT !.pc = "setup", !.runs = @ + 1, !.exit = "none"]
    /\ UNCHANGED <<wikistat, faults>>
    /\ OutsideDlt

\* run, lines 222-233: setup_tables, dlt.pipeline, the state of the source
DltGetState ==
    /\ dlt.pc = "setup"
    /\ dlt' = [dlt EXCEPT !.pipeline_state = dlt.state, !.pc = "filter"]
    /\ UNCHANGED <<wikistat, faults>>
    /\ OutsideDlt

\* load_wikipedia_pageviews_incremental, lines 120-141
DltFilter ==
    /\ dlt.pc = "filter"
    /\ LET all == generate_date_patterns(config.year, config.month,
                                         config.days, config.hours)
           done == dlt.pipeline_state
           new == SelectSeq(all, LAMBDA p : p \notin done)
       IN  dlt' = [dlt EXCEPT !.processed_files = done,
                              !.patterns_to_process = new,
                              !.stats = <<>>,
                              !.idx = IF new = <<>> THEN 0 ELSE 1,
                              !.pc = IF new = <<>> THEN "after_load" ELSE "load"]
    /\ UNCHANGED <<wikistat, faults>>
    /\ OutsideDlt

\* line 146: load_pageviews_for_date returns, the partition's rows are appended
DltLoad ==
    /\ dlt.pc = "load"
    /\ LET p == dlt.patterns_to_process[dlt.idx]
       IN  /\ wikistat' = AppendRows(wikistat, p, sourceRows[p])
           /\ dlt' = [dlt EXCEPT !.loaded = @ \cup {p}, !.pc = "mark"]
    /\ UNCHANGED faults
    /\ OutsideDlt

\* lines 147-157: the success entry of stats, processed_files.add(pattern)
DltMarkProcessed ==
    /\ dlt.pc = "mark"
    /\ LET p == dlt.patterns_to_process[dlt.idx]
       IN  dlt' = DltAdvance(
                     [dlt EXCEPT !.stats = Append(@, [date_pattern |-> p,
                                                      status |-> "success"]),
                                 !.processed_files = @ \cup {p}])
    /\ UNCHANGED <<wikistat, faults>>
    /\ OutsideDlt

\* Faulty variant: the except block also marks the partition as processed.
DltLoadRaisesMarks ==
    /\ dlt.pc = "load"
    /\ Fault("load")
    /\ LET p == dlt.patterns_to_process[dlt.idx]
       IN  dlt' = DltAdvance(
                     [dlt EXCEPT !.stats = Append(@, [date_pattern |-> p,
                                                      status |-> "failed"]),
                                 !.processed_files = @ \cup {p}])
    /\ UNCHANGED wikistat
    /\ OutsideDlt

\* lines 159-167: the load raises, the failed entry of stats
DltLoadRaises ==
    /\ dlt.pc = "load"
    /\ Fault("load")
    /\ LET p == dlt.patterns_to_process[dlt.idx]
       IN  dlt' = DltAdvance(
                     [dlt EXCEPT !.stats = Append(@, [date_pattern |-> p,
                                                      status |-> "failed"])])
    /\ UNCHANGED wikistat
    /\ OutsideDlt

\* line 170, after the loop: pipeline_state['processed_files'] = list(...)
DltUpdateState ==
    /\ dlt.pc = "update_state"
    /\ dlt' = [dlt EXCEPT !.pipeline_state = dlt.processed_files,
                          !.pc = "after_load"]
    /\ UNCHANGED <<wikistat, faults>>
    /\ OutsideDlt

\* run, lines 238-251: with load_stats not empty, pipeline.run stores the
\* stats and the state is saved; with no stats nothing is saved.
DltPipelineRun ==
    /\ dlt.pc = "after_load"
    /\ dlt' = [dlt EXCEPT !.state = IF dlt.stats # <<>>
                                    THEN dlt.pipeline_state ELSE @,
                          !.pc = "summary"]
    /\ UNCHANGED <<wikistat, faults>>
    /\ OutsideDlt

\* run, lines 253-274: summary statistics, disconnect, return
DltReturn ==
    /\ dlt.pc = "summary"
    /\ dlt' = DltProcessExit(dlt, "success")
    /\ UNCHANGED <<wikistat, faults>>
    /\ OutsideDlt

\* The process is killed from outside, between any two steps of run.  Killed
\* inside the loop, it had completed the loads of dlt.loaded.
DltKill ==
    /\ dlt.pc # "idle"
    /\ Fault("kill")
    /\ dlt' = DltProcessExit(
                 [dlt EXCEPT !.completed_before_kill =
                      IF dlt.pc \in {"load", "mark"} THEN @ \cup dlt.loaded ELSE @],
                 "killed")
    /\ UNCHANGED wikistat
    /\ OutsideDlt

NextDlt ==
    \/ DltStartRun
    \/ DltGetState
    \/ DltFilter
    \/ DltLoad
    \/ DltMarkProcessed
    \/ DltLoadRaises
    \/ DltUpdateState
    \/ DltPipelineRun
    \/ DltReturn
    \/ DltKill

SpecDlt == Init /\ [][NextDlt]_vars

\* C19: every partition whose load completed before a kill inside the loop of
\* load_wikipedia_pageviews_incremental is in the dlt state the next run
\* reads, and is not loaded again.
C19_DltCrashGuarantee ==
    \A p \in dlt.completed_before_kill :
        /\ p \in dlt.state
        /\ Loads(p) = 1

\* ------------------------------------------------ days or hours repeated
\* C21: within one run no partition identifier is loaded more than once,
\* whatever lists of days and hours the configuration holds.
C21_NoIntraRunReload ==
    \A i, j \in 1..Len(attempts) :
        i # j => attempts[i].pattern # attempts[j].pattern

\* ------------------------------------------------------ runs without end
\* The script is started again and again.  The clock of the records stops at
\* MaxRuns, the faults of a behaviour stay within MaxFaults: every call
\* succeeds once it has been attempted often enough.
StartRunRepeated ==
    /\ pc = "idle"
    /\ pc' = "setup"
    /\ runs' = IF runs < MaxRuns THEN runs + 1 ELSE runs
    /\ exitStatus' = "none"
    /\ attempts' = <<>>
    /\ storeErr' = FALSE
    /\ fatal' = "none"
    /\ countAtStart' = get_table_row_count(wikistat)
    /\ prev' = [exitStatus |-> exitStatus, attempts |-> attempts]
    /\ UNCHANGED <<processed_files, wikistat, fixed, client, locals, faults>>

NextLive ==
    \/ StartRunRepeated
    \/ SetupTables
    \/ SetupTablesRaises
    \/ FilterPatterns
    \/ FilterPatternsRaises
    \/ EmptyCount
    \/ EmptyCountRaises
    \/ LoadBefore
    \/ LoadBeforeRaises
    \/ LoadExecute
    \/ LoadExecuteRaises
    \/ LoadAfter
    \/ LoadAfterRaises
    \/ MarkSuccess
    \/ MarkSuccessRaises
    \/ MarkFailed
    \/ MarkFailedRaises
    \/ Summary
    \/ SummaryRaises
    \/ EntryReturn
    \/ EntryExcept
    \/ Kill

\* The first day of config.py, as in InitConc.
InitLive == InitConc

\* A process that can take a step takes one, and the script is started again
\* whenever no process runs.
SpecLive == InitLive /\ [][NextLive]_vars /\ WF_vars(NextLive)

\* Every configured partition is recorded 'success', and the run under way,
\* if any, has an empty work set and attempts nothing.
WorkSetEmpty ==
    /\ \A p \in Range(generate_date_patterns(config.year, config.month,
                                              config.days, config.hours)) :
          HasRecord(p, "success")
    /\ pc \in AfterFilter => new_patterns = <<>>
    /\ pc # "idle" => attempts = <<>>

\* C22: with the script run again and again and every call succeeding when
\* attempted often enough, from some run on every configured partition is
\* recorded 'success', every run has an empty work set and attempts nothing,
\* and such runs keep coming.
C22_EventualConvergence ==
    /\ <>[]WorkSetEmpty
    /\ []<>(pc = "empty_count")

\* After a run in which a load raised, a later run finds its work set empty.
C22_Witness ==
    /\ pc = "empty_count"
    /\ faults["load"] > 0
    /\ \E r \in processed_files : r.processed_at < Now
    /\ \A p \in Range(all_patterns) : HasRecord(p, "success")

\* --------------------------------------- the dlt state after the loop
\* Identifiers with an entry of the given status in the returned stats.
StatsWith(status) ==
    {dlt.stats[i].date_pattern :
        i \in {j \in 1..Len(dlt.stats) : dlt.stats[j].status = status}}

\* C23: when load_wikipedia_pageviews_incremental has returned,
\* pipeline_state['processed_files'] holds what it held before the call
\* (dlt.state, the state the run read) and the identifiers whose load
\* succeeded in the call, none whose load raised, and nothing was removed;
\* with an empty work set it is unchanged and the stats list is empty.
C23_DltStateAfterCall ==
    dlt.pc = "after_load" =>
        /\ dlt.pipeline_state = dlt.state \cup StatsWith("success")
        /\ dlt.state \subseteq dlt.pipeline_state
        /\ StatsWith("failed") \cap dlt.pipeline_state = {}
        /\ StatsWith("success") = dlt.loaded
        /\ dlt.patterns_to_process = <<>> =>
              dlt.pipeline_state = dlt.state /\ dlt.stats = <<>>

\* The call returned with a success and a failure, over a state that already
\* held an identifier.
C23_Witness ==
    /\ dlt.pc = "after_load"
    /\ dlt.state # {}
    /\ StatsWith("success") # {}
    /\ StatsWith("failed") # {}

\* ------------------------------------- the configuration edited between runs
\* config.py restricted to the first day and one of its hours.
EditConfigs ==
    {[WIKIPEDIA_CONFIG EXCEPT !.days = <<Head(ConfigDays)>>, !.hours = <<h>>] :
        h \in Range(ConfigHours)}

InitEdit ==
    /\ config \in EditConfigs
    /\ processed_files = {}
    /\ wikistat = [p \in ConfiguredPatterns |-> <<>>]
    /\ \E k \in 0..MaxRows :
          sourceRows = [p \in ConfiguredPatterns |-> k * PositionOf(p)]
    /\ NoProcess
    /\ conc = NoConc
    /\ dlt = NoDlt

\* WIKIPEDIA_CONFIG is edited while no process runs; the store stays.
EditConfig ==
    /\ pc = "idle"
    /\ \E c \in EditConfigs \ {config} : config' = c
    /\ UNCHANGED <<processed_files, wikistat, sourceRows, conc, dlt, client,
                   pc, locals, exitStatus, faults, history>>

NextEdit ==
    \/ Next
    \/ EditConfig

SpecEdit == InitEdit /\ [][NextEdit]_vars

\* C24: the counts a run logs add up: total configured = already processed +
\* new to process, whatever the store holds.
C24_CountsAddUp ==
    pc \in AfterFilter =>
        Len(all_patterns) = Cardinality(processed) + Len(new_patterns)

\* ------------------------------------------------- the ClickHouse connection
\* C25: when run has returned, on the early return as on the normal path, the
\* ClickHouse connection is closed: the manager's client is None.
C25_ClosedAtReturn ==
    pc = "returned" => client = "None"

====
